---- MODULE Spec2Model ----
(***************************************************************************)
(* A model of the price monitor watch.py: the rate-limited fetcher         *)
(* (_throttle, maybe_proxy, http_get_with_backoff), the price normalizer   *)
(* (norm_price), the extraction chain (extract_price), the history store   *)
(* (load_history, save_history) and the change detector and digest of      *)
(* main(); and of the news monitor news.py: its seen set (load_seen,        *)
(* save_seen), the deduplication of feed entries in main() and the digests *)
(* it sends.                                                               *)
(*                                                                         *)
(* Text is modelled by TLA+ strings, read character by character with      *)
(* SubSeq.  Time is counted in ticks of half a second.  A float is the     *)
(* exact decimal it was parsed from: [n, d] stands for n / d, d a power of *)
(* ten, with no trailing zero in the fraction, so that equal numbers are   *)
(* equal records.                                                          *)
(***************************************************************************)
EXTENDS Integers, Sequences, FiniteSets, TLC

VARIABLES
    pc,              \* where main() stands
    threshold,       \* CHANGE_THRESHOLD_PCT of the environment
    apikey,          \* SCRAPERAPI_KEY of the environment ("" when unset)
    rows,            \* the rows of watchlist.csv read by this run
    idx,             \* index in rows of the row the loop is at
    cur,             \* main()'s locals for that row: comp, name, url, ...
    history,         \* main()'s local `history`: key -> sequence of entries
    loaded,          \* what load_history returned to this run
    file,            \* the file history.json
    tmp,             \* the file history.json.tmp
    events_by_comp,  \* competitor -> sequence of digest items
    init_count, change_count, error_count,
    printed,         \* the last line main() printed for a row
    digest,          \* the digest handed to send_email by the last run
    now,             \* time.time(), in ticks
    LAST_FETCH,      \* _LAST_FETCH: domain -> time of the last fetch
    attempt,         \* http_get_with_backoff's `attempt` (0: no call running)
    delay,           \* http_get_with_backoff's `delay`, in ticks
    resp,            \* what the last requests.get returned (status 0: it raised)
    target,          \* the URL the last GET was sent to
    slept,           \* the last back-off sleep of http_get_with_backoff
    jitter,          \* the jitter _throttle drew last
    dom, last,       \* _throttle's locals `dom` and `last` of its last call
    gets,            \* GET requests the running call has issued
    npc,             \* where news.py's main() stands
    seen,            \* news.py main()'s local `seen`
    seen_loaded,     \* what load_seen returned to this run
    news_file,       \* the file news_history.json
    feed,            \* the entries fetch_entries returns to this run, in order,
                     \* each with the competitor of its row
    pos,             \* index in feed of the entry the loops are at
    items_by_comp,   \* news.py's dict, as the sequence of its [comp, items]
    new_links_global,
    mailed,          \* index in items_by_comp of the next digest to send
    sent,            \* the digests send_email has delivered, over all runs
    runs             \* runs of news.py started so far

watchvars == <<pc, threshold, apikey, rows, idx, cur, history, loaded, file, tmp,
               events_by_comp, init_count, change_count, error_count, printed,
               digest, now, LAST_FETCH, attempt, delay, resp, target, slept, jitter, dom, last,
               gets>>

newsvars == <<npc, seen, seen_loaded, news_file, feed, pos, items_by_comp,
              new_links_global, mailed, sent, runs>>

vars == <<watchvars, newsvars>>

(***************************************************************************)
(* Strings                                                                 *)
(***************************************************************************)
Char(s, i) == SubSeq(s, i, i)

Contains(s, sub) ==
    \E i \in 1..(Len(s) - Len(sub) + 1) : SubSeq(s, i, i + Len(sub) - 1) = sub

StartsWith(s, pre) == Len(s) >= Len(pre) /\ SubSeq(s, 1, Len(pre)) = pre

Upper == "ABCDEFGHIJKLMNOPQRSTUVWXYZ"
Lowers == "abcdefghijklmnopqrstuvwxyz"

LowerChar(c) ==
    IF \E i \in 1..Len(Upper) : Char(Upper, i) = c
    THEN Char(Lowers, CHOOSE i \in 1..Len(Upper) : Char(Upper, i) = c)
    ELSE c

RECURSIVE Lower(_)
Lower(s) == IF s = "" THEN "" ELSE LowerChar(Char(s, 1)) \o Lower(SubSeq(s, 2, Len(s)))

Digits == "0123456789"
IsDigit(c) == \E i \in 1..Len(Digits) : Char(Digits, i) = c
DigitVal(c) == (CHOOSE i \in 1..Len(Digits) : Char(Digits, i) = c) - 1

\* the number of occurrences of the character c in s: str.count
RECURSIVE Count(_, _)
Count(s, c) ==
    IF s = "" THEN 0
    ELSE (IF Char(s, 1) = c THEN 1 ELSE 0) + Count(SubSeq(s, 2, Len(s)), c)

(***************************************************************************)
(* Numbers                                                                 *)
(***************************************************************************)
None == [none |-> TRUE]

RECURSIVE Canon(_)
Canon(x) == IF x.d > 1 /\ x.n % 10 = 0 THEN Canon([n |-> x.n \div 10, d |-> x.d \div 10]) ELSE x

Num(k) == [n |-> k, d |-> 1]
Geq(a, b) == a.n * b.d >= b.n * a.d

RECURSIVE Pow10(_)
Pow10(k) == IF k = 0 THEN 1 ELSE 10 * Pow10(k - 1)

\* the natural number a string of digits denotes ("" denotes 0)
RECURSIVE NatOf(_)
NatOf(s) ==
    IF s = "" THEN 0
    ELSE 10 * NatOf(SubSeq(s, 1, Len(s) - 1)) + DigitVal(Char(s, Len(s)))

AllDigits(s) == \A i \in 1..Len(s) : IsDigit(Char(s, i))

\* float(s) for a string of the decimal forms "12", "12.", ".5", "12.5";
\* None stands for ValueError
ParseFloat(s) ==
    LET dots == Count(s, ".")
        p == IF dots = 1 THEN CHOOSE i \in 1..Len(s) : Char(s, i) = "." ELSE Len(s) + 1
        ip == SubSeq(s, 1, p - 1)
        fp == SubSeq(s, p + 1, Len(s))
    IN  IF dots <= 1 /\ AllDigits(ip) /\ AllDigits(fp) /\ Len(ip) + Len(fp) > 0
        THEN Canon([n |-> NatOf(ip \o fp), d |-> Pow10(Len(fp))])
        ELSE None

(***************************************************************************)
(* norm_price                                                              *)
(***************************************************************************)
\* DEFAULT_REGEX [^0-9\.]: the characters re.sub leaves in place
DEFAULT_REGEX == "0123456789."

\* re.sub(regex, "", text) for a regex that is a negated character class
RECURSIVE Sub(_, _)
Sub(keep, text) ==
    IF text = "" THEN ""
    ELSE (IF Contains(keep, Char(text, 1)) THEN Char(text, 1) ELSE "")
         \o Sub(keep, SubSeq(text, 2, Len(text)))

\* s.replace(".", "", k): the first k decimal points removed
RECURSIVE DropDots(_, _)
DropDots(s, k) ==
    IF s = "" \/ k = 0 THEN s
    ELSE IF Char(s, 1) = "." THEN DropDots(SubSeq(s, 2, Len(s)), k - 1)
    ELSE Char(s, 1) \o DropDots(SubSeq(s, 2, Len(s)), k)

\* Cleaned, were the first decimal point the one that is kept
CleanedKeepsFirst(text, regex) ==
    LET cleaned == Sub(regex, text)
        p == CHOOSE i \in 1..Len(cleaned) : Char(cleaned, i) = "." /\ Count(SubSeq(cleaned, 1, i), ".") = 1
    IN  IF Count(cleaned, ".") > 1
        THEN SubSeq(cleaned, 1, p) \o Sub(Digits, SubSeq(cleaned, p + 1, Len(cleaned)))
        ELSE cleaned

\* the string norm_price hands to float()
Cleaned(text, regex) ==
    LET cleaned == Sub(regex, text)
    IN  IF Count(cleaned, ".") > 1 THEN DropDots(cleaned, Count(cleaned, ".") - 1)
        ELSE cleaned

\* norm_price(text, regex); text = None is passed as None
norm_price(text, regex) ==
    IF text = None THEN None
    ELSE IF Cleaned(text.s, regex) = "" THEN None
    ELSE ParseFloat(Cleaned(text.s, regex))

\* a Python str value
Str(s) == [s |-> s]

\* str.strip() of blanks
RECURSIVE Strip(_)
Strip(s) ==
    IF s = "" THEN ""
    ELSE IF Char(s, 1) = " " THEN Strip(SubSeq(s, 2, Len(s)))
    ELSE IF Char(s, Len(s)) = " " THEN Strip(SubSeq(s, 1, Len(s) - 1))
    ELSE s

(***************************************************************************)
(* URLs: [netloc, path, query], query a sequence of [k, v] as parse_qsl    *)
(* reads them; the empty string is the URL with all three empty            *)
(***************************************************************************)
BlankUrl == [netloc |-> "", path |-> "", query |-> <<>>]

RECURSIVE urlencode(_)
urlencode(qs) ==
    IF qs = <<>> THEN ""
    ELSE qs[1].k \o "=" \o qs[1].v \o (IF Len(qs) > 1 THEN "&" ELSE "") \o urlencode(Tail(qs))

\* the text of a URL
UrlText(u) ==
    IF u = BlankUrl THEN ""
    ELSE "https://" \o u.netloc \o u.path
         \o (IF u.query = <<>> THEN "" ELSE "?" \o urlencode(u.query))

\* STRIP_UTM of the environment, "1" by default
STRIP_UTM == TRUE

\* parse_qsl drops the fields with a blank value; normalize_url those whose
\* name starts with utm_
KeptParam(q) == q.v # "" /\ ~StartsWith(Lower(q.k), "utm_")

normalize_url(u) ==
    IF u = BlankUrl \/ ~STRIP_UTM THEN u
    ELSE [u EXCEPT !.query = SelectSeq(u.query, KeptParam)]

\* maybe_proxy: [proxied, key, url] is the ScraperAPI URL carrying key and url
maybe_proxy(url, key) ==
    IF key # "" /\ Contains(UrlText(url), "hydrow.com")
    THEN [proxied |-> TRUE, key |-> key, url |-> url]
    ELSE [proxied |-> FALSE, key |-> "", url |-> url]

(***************************************************************************)
(* JSON values, as json.loads returns them:                                *)
(*   [t |-> "null"], [t |-> "str", s], [t |-> "num", s] (s its str()),     *)
(*   [t |-> "arr", items], [t |-> "obj", kv] (kv a sequence of [k, v])     *)
(***************************************************************************)
JNull == [t |-> "null"]
JStr(s) == [t |-> "str", s |-> s]
JNum(s) == [t |-> "num", s |-> s]
JArr(items) == [t |-> "arr", items |-> items]
JObj(kv) == [t |-> "obj", kv |-> kv]
KV(k, v) == [k |-> k, v |-> v]

\* Python's truth value of a JSON value
Truthy(v) ==
    CASE v.t = "null" -> FALSE
      [] v.t = "str" -> v.s # ""
      [] v.t = "num" -> ParseFloat(v.s) # Num(0)
      [] v.t = "arr" -> v.items # <<>>
      [] v.t = "obj" -> v.kv # <<>>

HasKey(o, k) == \E i \in 1..Len(o.kv) : o.kv[i].k = k
Get(o, k) == o.kv[CHOOSE i \in 1..Len(o.kv) : o.kv[i].k = k].v

\* find_price(obj) of extract_price; JNull is Python's None
RECURSIVE find_price(_), find_first(_)
find_price(obj) ==
    CASE obj.t = "obj" ->
            IF HasKey(obj, "price") /\ Truthy(Get(obj, "price")) THEN Get(obj, "price")
            ELSE IF HasKey(obj, "offers") /\ find_price(Get(obj, "offers")) # JNull
                 THEN find_price(Get(obj, "offers"))
            ELSE find_first([i \in 1..Len(obj.kv) |-> obj.kv[i].v])
      [] obj.t = "arr" -> find_first(obj.items)
      [] OTHER -> JNull
\* the first find_price(it) that is not None, for it in items
find_first(items) ==
    IF items = <<>> THEN JNull
    ELSE IF find_price(items[1]) # JNull THEN find_price(items[1])
    ELSE find_first(Tail(items))

\* str(p) of a scalar; of a container, its repr (digits and points of its
\* scalars in order, which is all norm_price keeps of it)
RECURSIVE StrOf(_), StrOfAll(_)
StrOf(v) ==
    CASE v.t = "null" -> "None"
      [] v.t = "str" -> v.s
      [] v.t = "num" -> v.s
      [] v.t = "arr" -> "[" \o StrOfAll(v.items) \o "]"
      [] v.t = "obj" -> "{" \o StrOfAll([i \in 1..Len(v.kv) |-> JArr(<<JStr(v.kv[i].k), v.kv[i].v>>)]) \o "}"
StrOfAll(items) ==
    IF items = <<>> THEN ""
    ELSE StrOf(items[1]) \o (IF Len(items) > 1 THEN ", " ELSE "") \o StrOfAll(Tail(items))

(***************************************************************************)
(* extract_price.  A page is what the parsers find in resp.text:           *)
(*   node    what soup.select_one(selector) returns: [found |-> FALSE], or *)
(*           [found |-> TRUE, text, attrs] (attrs a sequence of [k, v])    *)
(*   ld      the application/ld+json scripts in document order, each       *)
(*           [ok |-> FALSE] (json.loads raises) or [ok |-> TRUE, data]     *)
(*   affirm  the footnotes "Get the Peloton <product> ... Based on a price *)
(*           of $<price>" in document order, each [product, price]         *)
(*   dollars what re.findall(r"\$([0-9][\d,\.]+)", html) returns           *)
(***************************************************************************)
NoNode == [found |-> FALSE]
Node(text, attrs) == [found |-> TRUE, text |-> text, attrs |-> attrs]
BadJson == [ok |-> FALSE]
Json(data) == [ok |-> TRUE, data |-> data]

\* MIN_PRICE_FLOOR of the environment, 400 by default
MIN_PRICE_FLOOR == 400

\* node.get(attr): the attribute's value, or None
NodeGet(node, attr) ==
    IF \E i \in 1..Len(node.attrs) : node.attrs[i].k = attr
    THEN Str(node.attrs[CHOOSE i \in 1..Len(node.attrs) : node.attrs[i].k = attr].v)
    ELSE None

\* 1) the user-provided selector
BySelector(page, attr, regex) ==
    IF page.node.found
    THEN norm_price(IF attr # "" /\ attr # "inner_text"
                    THEN NodeGet(page.node, attr)
                    ELSE Str(Strip(page.node.text)), regex)
    ELSE None

\* what one ld+json script yields
LdAmount(block, regex) ==
    IF block.ok /\ find_price(block.data) # JNull
    THEN norm_price(Str(StrOf(find_price(block.data))), regex)
    ELSE None

\* 2) JSON-LD price fields: the first script that yields an amount
RECURSIVE ByJsonLd(_, _)
ByJsonLd(blocks, regex) ==
    IF blocks = <<>> THEN None
    ELSE IF LdAmount(blocks[1], regex) # None THEN LdAmount(blocks[1], regex)
    ELSE ByJsonLd(Tail(blocks), regex)

\* the pattern the product hint selects: the product names its footnote
\* starts with, and the one it must not start with ("" : none)
PelotonPattern(product_hint) ==
    LET ph == Lower(product_hint)
    IN  IF Contains(ph, "bike+") \/ Contains(ph, "bike plus") THEN [is |-> "bike+", isnot |-> ""]
        ELSE IF Contains(ph, "bike") THEN [is |-> "bike", isnot |-> "bike+"]
        ELSE IF Contains(ph, "tread") \/ Contains(ph, "treadmill") THEN [is |-> "tread", isnot |-> "tread+"]
        ELSE IF Contains(ph, "row") THEN [is |-> "row", isnot |-> ""]
        ELSE [is |-> "", isnot |-> ""]

PatternMatches(pat, product) ==
    /\ StartsWith(Lower(product), pat.is)
    /\ pat.isnot = "" \/ ~StartsWith(Lower(product), pat.isnot)

\* 3) Peloton: the Affirm footnote of the hinted product
ByPattern(url, page, product_hint, regex) ==
    LET pat == PelotonPattern(product_hint)
        hits == SelectSeq(page.affirm, LAMBDA f : PatternMatches(pat, f.product))
    IN  IF Contains(UrlText(url), "onepeloton.com") /\ product_hint # ""
           /\ pat.is # "" /\ hits # <<>>
        THEN norm_price(Str(hits[1].price), regex)
        ELSE None

\* max() of a non-empty sequence of numbers
RECURSIVE Max(_)
Max(xs) ==
    IF Len(xs) = 1 THEN xs[1]
    ELSE IF Geq(xs[1], Max(Tail(xs))) THEN xs[1] ELSE Max(Tail(xs))

\* ByHeuristic, were the first candidate returned
ByHeuristicFirst(page, regex) ==
    LET all == [i \in 1..Len(page.dollars) |-> norm_price(Str(page.dollars[i]), regex)]
        amounts == SelectSeq(all, LAMBDA a : a # None)
        above == SelectSeq(amounts, LAMBDA a : Geq(a, Num(MIN_PRICE_FLOOR)))
    IN  IF amounts = <<>> THEN None
        ELSE (IF above # <<>> THEN above ELSE amounts)[1]

\* 4) the largest dollar amount on the page, above the floor when one is
ByHeuristic(page, regex) ==
    LET all == [i \in 1..Len(page.dollars) |-> norm_price(Str(page.dollars[i]), regex)]
        amounts == SelectSeq(all, LAMBDA a : a # None)
        above == SelectSeq(amounts, LAMBDA a : Geq(a, Num(MIN_PRICE_FLOOR)))
    IN  IF amounts = <<>> THEN None
        ELSE Max(IF above # <<>> THEN above ELSE amounts)

\* extract_price, were the JSON-LD scripts read before the selected element
extract_price_ld_first(url, page, attr, regex, product_hint) ==
    LET bySelector == BySelector(page, attr, regex)
        byJsonLd == ByJsonLd(page.ld, regex)
        byPattern == ByPattern(url, page, product_hint, regex)
    IN  IF byJsonLd # None THEN byJsonLd
        ELSE IF bySelector # None THEN bySelector
        ELSE IF byPattern # None THEN byPattern
        ELSE ByHeuristic(page, regex)

\* extract_price on the page it fetched; None stands for
\* ValueError("Selector not found and no fallback price detected")
extract_price(url, page, attr, regex, product_hint) ==
    LET bySelector == BySelector(page, attr, regex)
        byJsonLd == ByJsonLd(page.ld, regex)
        byPattern == ByPattern(url, page, product_hint, regex)
    IN  IF bySelector # None THEN bySelector
        ELSE IF byJsonLd # None THEN byJsonLd
        ELSE IF byPattern # None THEN byPattern
        ELSE ByHeuristic(page, regex)

(***************************************************************************)
(* Program constants and the bounds of the model                           *)
(***************************************************************************)
TicksPerSec == 2
MIN_DOMAIN_GAP_SEC == 3
MIN_DOMAIN_GAP == MIN_DOMAIN_GAP_SEC * TicksPerSec
MAX_TRIES == 3
THROTTLE_JITTER_SEC == 5          \* random.uniform(-5, 5) of _throttle
FIRST_DELAY_SEC == 2              \* delay = 2.0
MAX_DELAY_SEC == 30               \* min(delay * 2, 30)
JITTER_429_TICKS == 3           \* random.uniform(0, 1.5), in ticks
JITTER_5XX_TICKS == 2           \* random.uniform(0, 1.0), in ticks

MaxRows == 2                      \* rows of watchlist.csv
StartTime == 40                   \* time.time() when main() starts, in ticks

(***************************************************************************)
(* Maps (Python dicts) as functions                                        *)
(***************************************************************************)
EmptyMap == [x \in {} |-> 0]
Put(m, k, v) == [x \in DOMAIN m \cup {k} |-> IF x = k THEN v ELSE m[x]]
GetOr(m, k, default) == IF k \in DOMAIN m THEN m[k] ELSE default

(***************************************************************************)
(* Files: [st, data] with st "missing", "empty" (opened for writing,       *)
(* nothing written yet), "prefix" (part of the JSON text written) or       *)
(* "full" (the whole JSON text of data)                                    *)
(***************************************************************************)
Missing == [st |-> "missing", data |-> EmptyMap]
Opened == [st |-> "empty", data |-> EmptyMap]
PartOf(data) == [st |-> "prefix", data |-> data]
Full(data) == [st |-> "full", data |-> data]

\* load_history, were it to keep what it can read of a text cut short
load_history_lenient(f, oserror) ==
    IF oserror \/ f.st = "missing" THEN EmptyMap ELSE f.data

\* load_history: {} when open() or json.load raises
load_history(f, oserror) == IF oserror \/ f.st # "full" THEN EmptyMap ELSE f.data

(***************************************************************************)
(* The fields main() reads from a row of watchlist.csv                     *)
(***************************************************************************)
DEFAULT_CURRENCY == "USD"

RowComp(r) == Strip(r.competitor)
RowName(r) == IF Strip(r.product_name) = "" THEN "Product" ELSE Strip(r.product_name)
RowUrl(r) == normalize_url(r.product_url)
RowSelector(r) == Strip(r.price_selector_css)
RowAttr(r) ==
    IF Strip(IF r.price_attribute = "" THEN "inner_text" ELSE r.price_attribute) = ""
    THEN "inner_text"
    ELSE Strip(IF r.price_attribute = "" THEN "inner_text" ELSE r.price_attribute)
RowCurrency(r) ==
    IF Strip(IF r.currency = "" THEN DEFAULT_CURRENCY ELSE r.currency) = ""
    THEN DEFAULT_CURRENCY
    ELSE Strip(IF r.currency = "" THEN DEFAULT_CURRENCY ELSE r.currency)
RowRegex(r) == IF r.normalize_regex = "" THEN DEFAULT_REGEX ELSE r.normalize_regex

\* the locals main() sets at the top of the loop body; key is the text of url
Locals(r) ==
    [comp |-> RowComp(r), name |-> RowName(r), url |-> RowUrl(r),
     key |-> UrlText(RowUrl(r)), selector |-> RowSelector(r), attr |-> RowAttr(r),
     currency |-> RowCurrency(r), regex |-> RowRegex(r)]

\* Skipped, were the test `if not url`
SkippedNoUrl(l) == l.key = ""

\* `if not url or not selector`
Skipped(l) == l.key = "" \/ l.selector = ""

(***************************************************************************)
(* The inputs the model draws                                              *)
(***************************************************************************)
Url(netloc, path, query) == [netloc |-> netloc, path |-> path, query |-> query]

RowAcme ==
    [competitor |-> "Acme", product_name |-> "Rower",
     product_url |-> Url("a.com", "/p", <<>>), price_selector_css |-> ".price",
     price_attribute |-> "", currency |-> "", normalize_regex |-> ""]
RowAcmeUtm ==
    [competitor |-> " Acme ", product_name |-> " ",
     product_url |-> Url("a.com", "/p", <<KV("utm_source", "mail")>>),
     price_selector_css |-> ".price",
     price_attribute |-> "", currency |-> "", normalize_regex |-> ""]
RowHydrow ==
    [competitor |-> "Hydrow", product_name |-> "Wave",
     product_url |-> Url("hydrow.com", "/wave", <<>>), price_selector_css |-> "meta",
     price_attribute |-> "content", currency |-> "CAD", normalize_regex |-> ""]
RowNoSelector ==
    [competitor |-> "Zed", product_name |-> "Erg",
     product_url |-> Url("z.com", "/erg", <<>>), price_selector_css |-> " ",
     price_attribute |-> "", currency |-> "", normalize_regex |-> ""]
RowNoUrl ==
    [competitor |-> "Zed", product_name |-> "Bike",
     product_url |-> BlankUrl, price_selector_css |-> ".price",
     price_attribute |-> "", currency |-> "", normalize_regex |-> ""]

WatchRows == {RowAcme, RowAcmeUtm, RowHydrow, RowNoSelector, RowNoUrl}

\* the lists of at most n rows
RowLists(n) == UNION {[1..k -> WatchRows] : k \in 0..n}

\* a page whose selected element shows `text`, as text and as content=
PageOf(text) ==
    [node |-> Node(text, <<KV("content", text)>>), ld |-> <<>>, affirm |-> <<>>,
     dollars |-> <<>>]
NoPage == [node |-> NoNode, ld |-> <<>>, affirm |-> <<>>, dollars |-> <<>>]

\* the page every fetch returns where the price does not matter
PricedPage == PageOf("$1,000")

FetchPages == {PricedPage, PageOf("950.00"), PageOf("960"), PageOf("Sold out")}

NoResp == [status |-> 0, page |-> NoPage]

(***************************************************************************)
(* main(): the start of a run                                              *)
(***************************************************************************)
\* news_history.json: [st, data] as history.json, data the list of links
NoSeenFile == [st |-> "missing", data |-> <<>>]
OpenedSeenFile == [st |-> "empty", data |-> <<>>]
SeenFile(links) == [st |-> "full", data |-> links]

\* news.py has not run yet and has left no file
NewsAtRest ==
    /\ npc = "start"
    /\ seen = {}
    /\ seen_loaded = {}
    /\ news_file = NoSeenFile
    /\ feed = <<>>
    /\ pos = 1
    /\ items_by_comp = <<>>
    /\ new_links_global = <<>>
    /\ mailed = 1
    /\ sent = <<>>
    /\ runs = 0

\* the state main() starts in: the environment and the history file that
\* earlier runs left
InitWith(thresholds, keys, files) ==
    /\ pc = "start"
    /\ threshold \in thresholds
    /\ apikey \in keys
    /\ rows = <<>>
    /\ idx = 1
    /\ cur = [comp |-> "", name |-> "", url |-> BlankUrl, key |-> "", selector |-> "",
              attr |-> "", currency |-> "", regex |-> ""]
    /\ history = EmptyMap
    /\ loaded = EmptyMap
    /\ file \in files
    /\ tmp = Missing
    /\ events_by_comp = EmptyMap
    /\ init_count = 0
    /\ change_count = 0
    /\ error_count = 0
    /\ printed = [kind |-> "none"]
    /\ digest = [sent |-> FALSE]
    /\ now = StartTime
    /\ LAST_FETCH = EmptyMap
    /\ attempt = 0
    /\ delay = 0
    /\ resp = NoResp
    /\ target = maybe_proxy(BlankUrl, "")
    /\ slept = 0
    /\ jitter = 0
    /\ dom = ""
    /\ last = 0
    /\ gets = 0
    /\ NewsAtRest

\* watchlist.csv and history.json are read
StartRun(rws, oserror) ==
    /\ pc = "start"
    /\ rows' = rws
    /\ idx' = 1
    /\ history' = load_history(file, oserror)
    /\ loaded' = load_history(file, oserror)
    /\ events_by_comp' = EmptyMap
    /\ init_count' = 0
    /\ change_count' = 0
    /\ error_count' = 0
    /\ printed' = [kind |-> "none"]
    /\ LAST_FETCH' = EmptyMap
    /\ attempt' = 0
    /\ delay' = 0
    /\ gets' = 0
    /\ pc' = "loop"
    /\ UNCHANGED <<newsvars, threshold, apikey, cur, file, tmp, digest, now, resp, target, slept,
                   jitter, dom, last>>

\* `if not url or not selector: print("[skip] ..."); continue`
SkipRow ==
    /\ pc = "loop"
    /\ idx <= Len(rows)
    /\ Skipped(Locals(rows[idx]))
    /\ cur' = Locals(rows[idx])
    /\ printed' = [kind |-> "skip", comp |-> cur'.comp, name |-> cur'.name]
    /\ idx' = idx + 1
    /\ UNCHANGED <<newsvars, pc, threshold, apikey, rows, history, loaded, file, tmp,
                   events_by_comp, init_count, change_count, error_count, digest,
                   now, LAST_FETCH, attempt, delay, resp, target, slept, jitter, dom, last, gets>>

\* extract_price(url, ...) is called and calls http_get_with_backoff(url)
CallExtract ==
    /\ pc = "loop"
    /\ idx <= Len(rows)
    /\ ~Skipped(Locals(rows[idx]))
    /\ cur' = Locals(rows[idx])
    /\ pc' = "fetch"
    /\ attempt' = 1
    /\ delay' = FIRST_DELAY_SEC * TicksPerSec
    /\ gets' = 0
    /\ UNCHANGED <<newsvars, threshold, apikey, rows, idx, history, loaded, file, tmp,
                   events_by_comp, init_count, change_count, error_count, printed,
                   digest, now, LAST_FETCH, resp, target, slept, jitter, dom, last>>

(***************************************************************************)
(* main(): `except Exception as e` around extract_price                    *)
(***************************************************************************)
ErrorLine(reason) ==
    [kind |-> "ERROR", comp |-> cur.comp, name |-> cur.name, reason |-> reason,
     url |-> cur.key]

\* MainExcept, were `error_count += 1` left out
MainExceptUncounted(reason) ==
    /\ events_by_comp' = Put(events_by_comp, cur.comp,
                             Append(GetOr(events_by_comp, cur.comp, <<>>),
                                    ErrorLine(reason)))
    /\ error_count' = error_count
    /\ printed' = ErrorLine(reason)
    /\ idx' = idx + 1
    /\ attempt' = 0
    /\ pc' = "loop"

MainExcept(reason) ==
    /\ events_by_comp' = Put(events_by_comp, cur.comp,
                             Append(GetOr(events_by_comp, cur.comp, <<>>),
                                    ErrorLine(reason)))
    /\ error_count' = error_count + 1
    /\ printed' = ErrorLine(reason)
    /\ idx' = idx + 1
    /\ attempt' = 0
    /\ pc' = "loop"

(***************************************************************************)
(* _throttle and http_get_with_backoff: one pass of the retry loop         *)
(***************************************************************************)
Min(a, b) == IF a < b THEN a ELSE b

\* urlsplit(url).netloc
Domain == cur.url.netloc

\* the sleep of _throttle, given the jitter drawn
ThrottleWait(j) == MIN_DOMAIN_GAP - (now - GetOr(LAST_FETCH, Domain, 0)) + j

\* Released, were _throttle never to sleep
ReleasedAtOnce(j) == now

\* time.time() when _throttle returns
Released(j) == IF ThrottleWait(j) > 0 THEN now + ThrottleWait(j) ELSE now

Retryable(status) == status = 429 \/ (500 <= status /\ status < 600)

\* raise_for_status, were it to raise for every status outside 2xx
RaisesUnless2xx(status) == status < 200 \/ status >= 300

\* resp.raise_for_status() raises HTTPError
RaisesForStatus(status) == 400 <= status /\ status < 600

\* the jitter added to the back-off sleep
BackoffJitterMax(status) == IF status = 429 THEN JITTER_429_TICKS ELSE JITTER_5XX_TICKS

\* NextDelay, were the delay never doubled
NextDelayFixed(d) == d

NextDelay(d) == Min(d * 2, MAX_DELAY_SEC * TicksPerSec)

\* _throttle(url), maybe_proxy(url) and requests.get(target), which takes dur
Request(j, dur) ==
    /\ jitter' = j
    /\ dom' = Domain
    /\ last' = GetOr(LAST_FETCH, Domain, 0)
    /\ LAST_FETCH' = Put(LAST_FETCH, Domain, Released(j))
    /\ target' = maybe_proxy(cur.url, apikey)
    /\ gets' = gets + 1

\* 429 or 5xx with tries left: sleep, double the delay, `continue`
AttemptRetry(j, dur, status, bj) ==
    /\ pc = "fetch"
    /\ Retryable(status)
    /\ bj <= BackoffJitterMax(status)
    /\ attempt < MAX_TRIES
    /\ Request(j, dur)
    /\ resp' = [status |-> status, page |-> NoPage]
    /\ slept' = delay + bj
    /\ now' = Released(j) + dur + delay + bj
    /\ delay' = NextDelay(delay)
    /\ attempt' = attempt + 1
    /\ UNCHANGED <<newsvars, pc, threshold, apikey, rows, idx, cur, history, loaded, file, tmp,
                   events_by_comp, init_count, change_count, error_count, printed,
                   digest>>

\* 429 or 5xx on the last try: sleep, then the loop ends and ValueError is raised
AttemptExhausted(j, dur, status, bj) ==
    /\ pc = "fetch"
    /\ Retryable(status)
    /\ bj <= BackoffJitterMax(status)
    /\ attempt = MAX_TRIES
    /\ Request(j, dur)
    /\ resp' = [status |-> status, page |-> NoPage]
    /\ slept' = delay + bj
    /\ now' = Released(j) + dur + delay + bj
    /\ delay' = NextDelay(delay)
    /\ MainExcept([err |-> "ValueError", tries |-> MAX_TRIES, url |-> cur.key])
    /\ UNCHANGED <<newsvars, threshold, apikey, rows, cur, history, loaded, file, tmp,
                   init_count, change_count, digest>>

\* another status for which raise_for_status raises
AttemptRefused(j, dur, status) ==
    /\ pc = "fetch"
    /\ ~Retryable(status)
    /\ RaisesForStatus(status)
    /\ Request(j, dur)
    /\ resp' = [status |-> status, page |-> NoPage]
    /\ now' = Released(j) + dur
    /\ MainExcept([err |-> "HTTPError", status |-> status])
    /\ UNCHANGED <<newsvars, threshold, apikey, rows, cur, history, loaded, file, tmp,
                   init_count, change_count, digest, delay, slept>>

\* AttemptFailed, were _LAST_FETCH set only once requests.get has returned
AttemptFailedUnrecorded(j, dur) ==
    /\ pc = "fetch"
    /\ jitter' = j
    /\ dom' = Domain
    /\ last' = GetOr(LAST_FETCH, Domain, 0)
    /\ LAST_FETCH' = LAST_FETCH
    /\ target' = maybe_proxy(cur.url, apikey)
    /\ gets' = gets + 1
    /\ resp' = NoResp
    /\ now' = Released(j) + dur
    /\ MainExcept([err |-> "RequestException"])
    /\ UNCHANGED <<newsvars, threshold, apikey, rows, cur, history, loaded, file, tmp,
                   init_count, change_count, digest, delay, slept>>

\* requests.get raises (no connection, timeout)
AttemptFailed(j, dur) ==
    /\ pc = "fetch"
    /\ Request(j, dur)
    /\ resp' = NoResp
    /\ now' = Released(j) + dur
    /\ MainExcept([err |-> "RequestException"])
    /\ UNCHANGED <<newsvars, threshold, apikey, rows, cur, history, loaded, file, tmp,
                   init_count, change_count, digest, delay, slept>>

\* any other status: `return resp`
AttemptReturned(j, dur, status, page) ==
    /\ pc = "fetch"
    /\ ~Retryable(status)
    /\ ~RaisesForStatus(status)
    /\ Request(j, dur)
    /\ resp' = [status |-> status, page |-> page]
    /\ now' = Released(j) + dur
    /\ pc' = "parse"
    /\ UNCHANGED <<newsvars, threshold, apikey, rows, idx, cur, history, loaded, file, tmp,
                   events_by_comp, init_count, change_count, error_count, printed,
                   digest, attempt, delay, slept>>

(***************************************************************************)
(* main(): the change detector                                             *)
(***************************************************************************)
\* what extract_price makes of the page it fetched for the row
Amount == extract_price(cur.url, resp.page, cur.attr, cur.regex, cur.name)

\* history.get(key, [{}])[-1].get("amount") if history.get(key) else None
Prev(h, key) ==
    IF key \in DOMAIN h /\ h[key] # <<>> THEN h[key][Len(h[key])].amount ELSE None

Abs(x) == IF x < 0 THEN -x ELSE x

\* pct = abs(amount - prev) / prev * 100 if prev else 100.0, as the fraction
\* [num, den]
Pct(amount, prev) ==
    IF prev.n # 0
    THEN [num |-> Abs(amount.n * prev.d - prev.n * amount.d) * 100, den |-> prev.n * amount.d]
    ELSE [num |-> 100, den |-> 1]

\* the comparison, were it `pct > CHANGE_THRESHOLD_PCT`
MoreThan(pct, thr) == pct.num > thr * pct.den

\* pct >= CHANGE_THRESHOLD_PCT
AtLeast(pct, thr) == pct.num >= thr * pct.den

\* pct in hundredths, as {pct:.2f} prints it
Pct2f(pct) == (pct.num * 200 + pct.den) \div (2 * pct.den)

\* Classify, were the first test `if not prev`
ClassifyFalsy(prev, amount, thr) ==
    IF prev = None \/ prev.n = 0 THEN "INIT"
    ELSE IF amount # prev
         THEN IF AtLeast(Pct(amount, prev), thr) THEN "CHANGE" ELSE "minor change ignored"
         ELSE "no change"

\* the branch main() takes for a new amount
Classify(prev, amount, thr) ==
    IF prev = None THEN "INIT"
    ELSE IF amount # prev
         THEN IF AtLeast(Pct(amount, prev), thr) THEN "CHANGE" ELSE "minor change ignored"
         ELSE "no change"

Entry(amount) ==
    [ts |-> now \div TicksPerSec, competitor |-> cur.comp, product_name |-> cur.name,
     amount |-> amount, currency |-> cur.currency]

\* the line printed for the row
Line(kind, prev, amount) ==
    CASE kind = "INIT" ->
            [kind |-> kind, comp |-> cur.comp, name |-> cur.name,
             amount |-> amount, currency |-> cur.currency, url |-> cur.key]
      [] kind = "no change" ->
            [kind |-> kind, comp |-> cur.comp, name |-> cur.name,
             amount |-> amount, currency |-> cur.currency]
      [] OTHER ->
            [kind |-> kind, comp |-> cur.comp, name |-> cur.name,
             prev |-> prev, amount |-> amount, currency |-> cur.currency,
             pct |-> Pct2f(Pct(amount, prev)), url |-> cur.key]

\* IsEvent, were only the minor changes kept out of the digest
IsNotMinor(kind) == kind # "minor change ignored"

\* the lines that go to the digest
IsEvent(kind) == kind \in {"INIT", "CHANGE"}

\* extract_price raises ValueError: no strategy found a price
ExtractFails ==
    /\ pc = "parse"
    /\ Amount = None
    /\ MainExcept([err |-> "ValueError", tries |-> 0, url |-> ""])
    /\ UNCHANGED <<newsvars, threshold, apikey, rows, cur, history, loaded, file, tmp,
                   init_count, change_count, digest, now, LAST_FETCH, delay, resp,
                   target, slept, jitter, dom, last, gets>>

\* Observe, were the entry appended only when the row is an event or a change
ObserveChangesOnly ==
    /\ pc = "parse"
    /\ Amount # None
    /\ LET amount == Amount
           prev == Prev(history, cur.key)
           kind == Classify(prev, amount, threshold)
           line == Line(kind, prev, amount)
       IN  /\ history' = IF kind = "no change" THEN history
                         ELSE Put(history, cur.key,
                                  Append(GetOr(history, cur.key, <<>>), Entry(amount)))
           /\ printed' = line
           /\ events_by_comp' =
                 IF IsEvent(kind)
                 THEN Put(events_by_comp, cur.comp,
                          Append(GetOr(events_by_comp, cur.comp, <<>>), line))
                 ELSE events_by_comp
           /\ init_count' = init_count + (IF kind = "INIT" THEN 1 ELSE 0)
           /\ change_count' = change_count + (IF kind = "CHANGE" THEN 1 ELSE 0)
    /\ idx' = idx + 1
    /\ attempt' = 0
    /\ pc' = "loop"
    /\ UNCHANGED <<newsvars, threshold, apikey, rows, cur, loaded, file, tmp, error_count,
                   digest, now, LAST_FETCH, delay, resp, target, slept, jitter, dom, last, gets>>

\* extract_price returns an amount: the entry is appended and the row classified
Observe ==
    /\ pc = "parse"
    /\ Amount # None
    /\ LET amount == Amount
           prev == Prev(history, cur.key)
           kind == Classify(prev, amount, threshold)
           line == Line(kind, prev, amount)
       IN  /\ history' = Put(history, cur.key,
                             Append(GetOr(history, cur.key, <<>>), Entry(amount)))
           /\ printed' = line
           /\ events_by_comp' =
                 IF IsEvent(kind)
                 THEN Put(events_by_comp, cur.comp,
                          Append(GetOr(events_by_comp, cur.comp, <<>>), line))
                 ELSE events_by_comp
           /\ init_count' = init_count + (IF kind = "INIT" THEN 1 ELSE 0)
           /\ change_count' = change_count + (IF kind = "CHANGE" THEN 1 ELSE 0)
    /\ idx' = idx + 1
    /\ attempt' = 0
    /\ pc' = "loop"
    /\ UNCHANGED <<newsvars, threshold, apikey, rows, cur, loaded, file, tmp, error_count,
                   digest, now, LAST_FETCH, delay, resp, target, slept, jitter, dom, last, gets>>

(***************************************************************************)
(* save_history(history)                                                   *)
(***************************************************************************)
SaveFrame ==
    UNCHANGED <<newsvars, threshold, apikey, rows, idx, cur, history, loaded, events_by_comp,
                init_count, change_count, error_count, printed, digest, now,
                LAST_FETCH, attempt, delay, resp, target, slept, jitter, dom, last, gets>>

\* SaveOpenTmp, were history.json itself opened for writing
SaveOpenInPlace ==
    /\ pc = "loop"
    /\ idx > Len(rows)
    /\ file' = Opened
    /\ pc' = "save_tmp"
    /\ UNCHANGED tmp
    /\ SaveFrame

\* open(tmp, "w")
SaveOpenTmp ==
    /\ pc = "loop"
    /\ idx > Len(rows)
    /\ tmp' = Opened
    /\ pc' = "save_tmp"
    /\ UNCHANGED file
    /\ SaveFrame

\* json.dump(data, f) and the close of tmp
SaveDumpTmp ==
    /\ pc = "save_tmp"
    /\ tmp' = Full(history)
    /\ pc' = "save_replace"
    /\ UNCHANGED file
    /\ SaveFrame

\* os.replace(tmp, HISTORY_FILE)
SaveReplace ==
    /\ pc = "save_replace"
    /\ file' = tmp
    /\ tmp' = Missing
    /\ pc' = "digest"
    /\ SaveFrame

\* os.replace raises, `except Exception`: open(HISTORY_FILE, "w")
SaveOpenFile ==
    /\ pc = "save_replace"
    /\ file' = Opened
    /\ pc' = "save_dump"
    /\ UNCHANGED tmp
    /\ SaveFrame

\* json.dump(data, f) and the close of HISTORY_FILE
SaveDumpFile ==
    /\ pc = "save_dump"
    /\ file' = Full(history)
    /\ pc' = "digest"
    /\ UNCHANGED tmp
    /\ SaveFrame

\* the process is killed inside save_history; a file being written keeps
\* what had reached it: nothing, or part of the text
InterruptSave ==
    /\ pc \in {"save_tmp", "save_replace", "save_dump"}
    /\ \/ UNCHANGED <<file, tmp>>
       \/ pc = "save_tmp" /\ tmp' = PartOf(history) /\ UNCHANGED file
       \/ pc = "save_dump" /\ file' = PartOf(history) /\ UNCHANGED tmp
    /\ pc' = "killed"
    /\ SaveFrame

(***************************************************************************)
(* main(): the digest                                                      *)
(***************************************************************************)
\* SEND_EMPTY_DIGEST of the environment, "0" by default
SEND_EMPTY_DIGEST == FALSE

\* the characters of the model's strings in code point order
CodeOrder ==
    " $&+,-./0123456789:=?ABCDEFGHIJKLMNOPQRSTUVWXYZ_abcdefghijklmnopqrstuvwxyz"
Ord(c) == CHOOSE i \in 1..Len(CodeOrder) : Char(CodeOrder, i) = c

\* a < b for Python strings
RECURSIVE StrLess(_, _)
StrLess(a, b) ==
    /\ b # ""
    /\ \/ a = ""
       \/ Ord(Char(a, 1)) < Ord(Char(b, 1))
       \/ Char(a, 1) = Char(b, 1) /\ StrLess(SubSeq(a, 2, Len(a)), SubSeq(b, 2, Len(b)))

\* Sorted, were the order descending
RECURSIVE SortedDown(_)
SortedDown(S) ==
    IF S = {} THEN <<>>
    ELSE LET m == CHOOSE x \in S : \A y \in S : x = y \/ StrLess(y, x)
         IN  <<m>> \o SortedDown(S \ {m})

\* sorted(S) for a set of strings
RECURSIVE Sorted(_)
Sorted(S) ==
    IF S = {} THEN <<>>
    ELSE LET m == CHOOSE x \in S : \A y \in S : x = y \/ StrLess(x, y)
         IN  <<m>> \o Sorted(S \ {m})

\* sum(len(v) for v in events_by_comp.values())
RECURSIVE TotalItems(_)
TotalItems(e) ==
    IF DOMAIN e = {} THEN 0
    ELSE LET c == CHOOSE c \in DOMAIN e : TRUE
         IN  Len(e[c]) + TotalItems([x \in DOMAIN e \ {c} |-> e[x]])

\* the subject's counts and the body's groups
BuildDigest ==
    [sent |-> TRUE, changes |-> change_count, inits |-> init_count, errors |-> error_count,
     groups |-> [i \in 1..Cardinality(DOMAIN events_by_comp) |->
                    [comp |-> Sorted(DOMAIN events_by_comp)[i],
                     items |-> events_by_comp[Sorted(DOMAIN events_by_comp)[i]]]]]

\* the end of main(): the digest is sent, or not when there is no event
SendDigest ==
    /\ pc = "digest"
    /\ digest' = IF TotalItems(events_by_comp) = 0 /\ ~SEND_EMPTY_DIGEST
                 THEN [sent |-> FALSE]
                 ELSE BuildDigest
    /\ pc' = "done"
    /\ UNCHANGED <<newsvars, threshold, apikey, rows, idx, cur, history, loaded, file, tmp,
                   events_by_comp, init_count, change_count, error_count, printed,
                   now, LAST_FETCH, attempt, delay, resp, target, slept, jitter, dom, last, gets>>

(***************************************************************************)
(* Specifications                                                          *)
(***************************************************************************)
\* an entry as an earlier run of main() wrote it
Old(ts, comp, name, k, currency) ==
    [ts |-> ts, competitor |-> comp, product_name |-> name, amount |-> Num(k),
     currency |-> currency]

StoreAcme ==
    ("https://a.com/p" :> <<Old(5, "Acme", "Rower", 1000, "USD")>>)
    @@ ("https://hydrow.com/wave" :> <<>>)
StoreBoth ==
    ("https://a.com/p" :> <<Old(5, "Acme", "Rower", 1000, "USD"),
                            Old(9, "Acme", "Rower", 0, "USD")>>)
    @@ ("https://hydrow.com/wave" :> <<Old(9, "Hydrow", "Wave", 950, "CAD")>>)

\* history.json as earlier runs can have left it: never written, written
\* by save_history, or cut short by a kill in its fallback
HistoryFiles == {Missing, Full(StoreAcme), Full(StoreBoth), PartOf(StoreAcme)}

Init == InitWith({0, 5}, {""}, HistoryFiles)

\* the steps of main() that neither fetch nor write
Process == SkipRow \/ CallExtract \/ ExtractFails \/ Observe

Save == SaveOpenTmp \/ SaveDumpTmp \/ SaveReplace \/ SaveOpenFile \/ SaveDumpFile

\* Spec: one run of main() over any watchlist of at most MaxRows rows, no
\* server answering 429 or 5xx, the timing of the fetches fixed
Jitters == {0}
Durations == {1}
Statuses == {200, 404}

Next ==
    \/ \E rws \in RowLists(MaxRows), oserror \in BOOLEAN : StartRun(rws, oserror)
    \/ Process
    \/ \E j \in Jitters, dur \in Durations, st \in Statuses : AttemptRefused(j, dur, st)
    \/ \E j \in Jitters, dur \in Durations : AttemptFailed(j, dur)
    \/ \E j \in Jitters, dur \in Durations, st \in Statuses, page \in FetchPages :
          AttemptReturned(j, dur, st, page)
    \/ Save
    \/ SendDigest

Spec == Init /\ [][Next]_vars

\* SpecCrash: the same from a history.json that is absent or whole, and the
\* process may be killed inside save_history
CrashFiles == {Missing, Full(StoreAcme)}
InitCrash == InitWith({0}, {""}, CrashFiles)

NextCrash == Next \/ InterruptSave

SpecCrash == InitCrash /\ [][NextCrash]_vars

\* SpecFetch: the loop of main() over a fixed watchlist whose pages all show
\* a price, every kind of response and the extremes of every random draw
FetchLists == {<<RowAcme, RowAcmeUtm>>, <<RowHydrow, RowAcme>>}
FetchJitters == {-(THROTTLE_JITTER_SEC * TicksPerSec), 0, THROTTLE_JITTER_SEC * TicksPerSec}
FetchStatuses == {200, 304, 404, 429, 503}
BackoffJitters == {0, JITTER_5XX_TICKS, JITTER_429_TICKS}

InitFetch == InitWith({0}, {"", "KEY"}, {Missing})

NextFetch ==
    \/ \E rws \in FetchLists : StartRun(rws, FALSE)
    \/ CallExtract
    \/ \E j \in FetchJitters, dur \in Durations, st \in FetchStatuses, bj \in BackoffJitters :
          AttemptRetry(j, dur, st, bj)
    \/ \E j \in FetchJitters, dur \in Durations, st \in FetchStatuses, bj \in BackoffJitters :
          AttemptExhausted(j, dur, st, bj)
    \/ \E j \in FetchJitters, dur \in Durations, st \in FetchStatuses :
          AttemptRefused(j, dur, st)
    \/ \E j \in FetchJitters, dur \in Durations : AttemptFailed(j, dur)
    \/ \E j \in FetchJitters, dur \in Durations, st \in FetchStatuses :
          AttemptReturned(j, dur, st, PricedPage)
    \/ Observe

SpecFetch == InitFetch /\ [][NextFetch]_vars

\* SpecExtract: extract_price on a fetched page, for the pages made of every
\* choice of selected element, ld+json scripts, footnotes and dollar amounts
RowPeloton(name) ==
    [competitor |-> "Peloton", product_name |-> name,
     product_url |-> Url("www.onepeloton.com", "/shop", <<>>),
     price_selector_css |-> ".price", price_attribute |-> "", currency |-> "",
     normalize_regex |-> ""]

ExtractRows == {RowAcme, RowHydrow, RowPeloton("Peloton Bike"), RowPeloton("Bike+ Basics"),
                RowPeloton("Guide")}

ExtractNodes ==
    {NoNode, Node(" $1,000 ", <<>>), Node("Sold out", <<KV("content", "950.00")>>),
     Node("12.50", <<KV("content", "n/a")>>)}

Offer(price) == JObj(<<KV("@type", JStr("Offer")), KV("price", price)>>)

ExtractLd ==
    {<<>>,
     <<Json(JObj(<<KV("name", JStr("Rower")), KV("offers", Offer(JStr("1,299.00")))>>))>>,
     <<BadJson, Json(JArr(<<JObj(<<KV("price", JNum("0")), KV("offers", Offer(JNum("899.5")))>>)>>))>>,
     <<Json(Offer(JStr("call us"))), Json(JObj(<<KV("item", JArr(<<JNull, Offer(JNum("750"))>>))>>))>>,
     <<Json(JObj(<<KV("offers", JArr(<<>>)), KV("price", JStr(""))>>))>>}

ExtractAffirm ==
    {<<>>,
     <<[product |-> "Bike+", price |-> "2,495"], [product |-> "Bike", price |-> "1,445"],
       [product |-> "Tread", price |-> "2,995"]>>}

ExtractDollars == {<<>>, <<"12", "999", "1,050.00">>, <<"39", "12.5">>, <<"5.", "999">>}

ExtractPages ==
    {[node |-> n, ld |-> l, affirm |-> a, dollars |-> d] :
        n \in ExtractNodes, l \in ExtractLd, a \in ExtractAffirm, d \in ExtractDollars}

\* the state in which http_get_with_backoff has just returned the page to
\* extract_price, for the first row of a one-row watchlist and no history
InitParse(rowset, pages) ==
    \E r \in rowset, page \in pages :
        /\ pc = "parse"
        /\ threshold = 0
        /\ apikey = ""
        /\ rows = <<r>>
        /\ idx = 1
        /\ cur = Locals(r)
        /\ history = EmptyMap
        /\ loaded = EmptyMap
        /\ file = Missing
        /\ tmp = Missing
        /\ events_by_comp = EmptyMap
        /\ init_count = 0
        /\ change_count = 0
        /\ error_count = 0
        /\ printed = [kind |-> "none"]
        /\ digest = [sent |-> FALSE]
        /\ now = StartTime
        /\ LAST_FETCH = Put(EmptyMap, Locals(r).url.netloc, StartTime)
        /\ attempt = 1
        /\ delay = FIRST_DELAY_SEC * TicksPerSec
        /\ resp = [status |-> 200, page |-> page]
        /\ target = maybe_proxy(Locals(r).url, "")
        /\ slept = 0
        /\ jitter = 0
        /\ dom = Locals(r).url.netloc
        /\ last = 0
        /\ gets = 1
        /\ NewsAtRest

InitExtract == InitParse(ExtractRows, ExtractPages)

NextExtract == ExtractFails \/ Observe

SpecExtract == InitExtract /\ [][NextExtract]_vars

\* SpecNorm: extract_price on a page that has nothing but the selected
\* element, whose text is any string of at most MaxLen of these characters;
\* the row reads the text, or an attribute the element does not have
MaxLen == 4
NormChars == {"0", "1", "2", ".", ","}

RECURSIVE Texts(_)
Texts(n) ==
    IF n = 0 THEN {""}
    ELSE Texts(n - 1) \cup {s \o c : s \in Texts(n - 1), c \in NormChars}

NormPages ==
    {[node |-> Node(t, <<>>), ld |-> <<>>, affirm |-> <<>>, dollars |-> <<>>] :
        t \in Texts(MaxLen)}

InitNorm == InitParse({RowAcme, RowHydrow}, NormPages)

SpecNorm == InitNorm /\ [][NextExtract]_vars

\* SpecRules: the loop of main() over two rows whose URLs are variations of
\* one another, every page showing the same price, with and without an API key
RowWith(r, path, query) == [r EXCEPT !.product_url = Url("a.com", path, query)]

RowSlash == RowWith(RowAcme, "/p/", <<>>)
RowAB == RowWith(RowAcme, "/p", <<KV("a", "1"), KV("b", "2")>>)
RowBA == RowWith(RowAcme, "/p", <<KV("b", "2"), KV("a", "1")>>)
RowUtmUpper == RowWith(RowAcme, "/p", <<KV("UTM_Campaign", "x"), KV("a", "1"), KV("b", "2")>>)
RowBlankRef == RowWith(RowAcme, "/p", <<KV("ref", "")>>)
RowMention == RowWith(RowAcme, "/hydrow.com", <<>>)

RuleRows ==
    {RowAcme, RowAcmeUtm, RowSlash, RowAB, RowBA, RowUtmUpper, RowBlankRef, RowHydrow,
     RowMention}

InitRules == InitWith({0}, {"", "KEY"}, {Missing})

NextRules ==
    \/ \E rws \in [1..2 -> RuleRows] : StartRun(rws, FALSE)
    \/ CallExtract
    \/ \E j \in Jitters, dur \in Durations : AttemptReturned(j, dur, 200, PricedPage)
    \/ Observe

SpecRules == InitRules /\ [][NextRules]_vars

(***************************************************************************)
(* Properties of main()'s loop                                             *)
(***************************************************************************)
\* the step that ends the processing of a row that was not skipped
RowEnds == pc \in {"fetch", "parse"} /\ pc' = "loop"

\* the kinds of line printed for a row whose extraction returned an amount
Outcomes == {"INIT", "CHANGE", "minor change ignored", "no change"}

IsPrefix(s, t) == Len(s) <= Len(t) /\ SubSeq(t, 1, Len(s)) = s

\* C1: for every row processed, when extract_price returns an amount exactly
\* one entry, holding that amount, is appended to the sequence of the row's
\* normalized URL and no other sequence changes, whatever line is printed;
\* when the fetch or the extraction raises, history is left as it was
C1_OneObservationPerSuccess ==
    [][RowEnds =>
          /\ printed'.kind \in Outcomes \cup {"ERROR"}
          /\ printed'.kind = "ERROR" => history' = history
          /\ printed'.kind \in Outcomes =>
                /\ DOMAIN history' = DOMAIN history \cup {cur.key}
                /\ \A k \in DOMAIN history : k # cur.key => history'[k] = history[k]
                /\ Len(history'[cur.key]) = Len(GetOr(history, cur.key, <<>>)) + 1
                /\ IsPrefix(GetOr(history, cur.key, <<>>), history'[cur.key])
                /\ history'[cur.key][Len(history'[cur.key])].amount = printed'.amount]_vars

\* a row whose price had not changed was recorded, and then a row failed
C1_Witness ==
    /\ printed.kind = "ERROR"
    /\ idx = 3
    /\ \E k \in DOMAIN loaded :
          /\ loaded[k] # <<>>
          /\ Len(history[k]) = Len(loaded[k]) + 1
          /\ history[k] = Append(loaded[k], history[k][Len(history[k])])
          /\ history[k][Len(history[k])].amount = loaded[k][Len(loaded[k])].amount

\* C2: a row whose fetch or extraction raises appends exactly one ERROR line
\* to its competitor's group and to no other, adds one to error_count, leaves
\* history as it was and hands over to the next row; save_history is entered
\* only after the last row, and the loop is never left without a next step
C2_ErrorStep ==
    [][RowEnds /\ printed'.kind = "ERROR" =>
          /\ DOMAIN events_by_comp' = DOMAIN events_by_comp \cup {cur.comp}
          /\ \A c \in DOMAIN events_by_comp :
                c # cur.comp => events_by_comp'[c] = events_by_comp[c]
          /\ events_by_comp'[cur.comp] =
                Append(GetOr(events_by_comp, cur.comp, <<>>), printed')
          /\ printed'.comp = cur.comp
          /\ error_count' = error_count + 1
          /\ init_count' = init_count /\ change_count' = change_count
          /\ history' = history
          /\ idx' = idx + 1]_vars

\* at the head of the loop the next row can be taken, or save_history
\* entered after the last one
C2_LoopGoesOn ==
    pc = "loop" =>
        IF idx <= Len(rows) THEN ENABLED (SkipRow \/ CallExtract) ELSE ENABLED SaveOpenTmp

C2_FailureNeverAborts ==
    /\ C2_ErrorStep
    /\ []C2_LoopGoesOn
    /\ [](pc \in {"save_tmp", "save_replace", "save_dump"} => idx = Len(rows) + 1)

\* the first of two rows failed, the second was processed and the run ended
C2_Witness ==
    /\ pc = "done"
    /\ error_count = 1
    /\ Len(rows) = 2
    /\ printed.kind \in Outcomes
    /\ file = Full(history)

(***************************************************************************)
(* Properties of save_history                                              *)
(***************************************************************************)
\* C3: when the process is killed at any step of save_history, history.json
\* holds the whole of what it held before the run or the whole of the new
\* history, never a truncated or partly written text
C3_NeverTruncated == pc = "killed" => file \in CrashFiles \cup {Full(history)}

(***************************************************************************)
(* Properties of http_get_with_backoff                                     *)
(***************************************************************************)
\* the step in which the running call issues a GET
Gets == pc = "fetch" /\ gets' = gets + 1

\* the call ended by raising, returned, or goes round its loop again
CallRaises == pc' = "loop" /\ printed'.kind = "ERROR"
CallReturns == pc' = "parse"
CallRetries == pc' = "fetch"

Is429or5xx(status) == status = 429 \/ status \in 500..599

\* the parts of C4 that do not depend on which statuses raise
C4_Retries ==
    /\ gets' <= 3
    /\ gets >= 1 => Is429or5xx(resp.status)
    /\ resp'.status \in 200..299 => CallReturns
    /\ Is429or5xx(resp'.status) /\ gets' < 3 => CallRetries
    /\ Is429or5xx(resp'.status) /\ gets' = 3 =>
          /\ CallRaises
          /\ printed'.reason = [err |-> "ValueError", tries |-> 3, url |-> cur.key]

\* C4 as claimed: one call issues at most 3 GETs, a further GET only after a
\* 429 or 5xx; every other status outside 2xx makes the call raise at once,
\* a 2xx returns at once, and the third 429 or 5xx in a row raises the error
\* that names the URL and the number of tries
C4_AsClaimed ==
    [][Gets =>
          /\ C4_Retries
          /\ resp'.status # 0 /\ resp'.status \notin 200..299 /\ ~Is429or5xx(resp'.status)
                => CallRaises /\ gets' = gets + 1]_vars

\* C4 amended: as claimed, but it is a 4xx status other than 429 that makes
\* the call raise at once; every status below 400 returns at once
C4_Amended ==
    [][Gets =>
          /\ C4_Retries
          /\ resp'.status \in 400..499 /\ resp'.status # 429
                => CallRaises /\ printed'.reason = [err |-> "HTTPError", status |-> resp'.status]
          /\ resp'.status \in 1..399 => CallReturns]_vars

\* the third GET of a call, after two retries, was answered 304 and returned
C4_Witness == pc = "parse" /\ gets = 3 /\ resp.status = 304

(***************************************************************************)
(* Properties of the change detector                                       *)
(***************************************************************************)
\* the step in which extract_price has returned and the row is classified
Classifies == pc = "parse" /\ pc' = "loop" /\ printed'.kind \in Outcomes

\* the row has a prior observation
HasPrior == cur.key \in DOMAIN history /\ history[cur.key] # <<>>
PriorAmount == history[cur.key][Len(history[cur.key])].amount

\* the line is appended to the group of the row's competitor, and to no other
Emits ==
    /\ DOMAIN events_by_comp' = DOMAIN events_by_comp \cup {cur.comp}
    /\ \A c \in DOMAIN events_by_comp :
          c # cur.comp => events_by_comp'[c] = events_by_comp[c]
    /\ events_by_comp'[cur.comp] = Append(GetOr(events_by_comp, cur.comp, <<>>), printed')

\* |new - prev| / prev * 100 >= thr, for prev # 0
ChangeReaches(new, prev, thr) ==
    Abs(new.n * prev.d - prev.n * new.d) * 100 >= thr * prev.n * new.d

\* |new - prev| / prev * 100 in hundredths, for a prev that divides it so
Hundredths(new, prev) == (Abs(new.n * prev.d - prev.n * new.d) * 10000) \div (prev.n * new.d)

\* C5: for a row with a prior amount prev and a new amount that differs, pct
\* is |new - prev| / prev * 100, or 100 when prev = 0; when pct reaches the
\* threshold a CHANGE line with prev, the new amount and pct is put in the
\* digest and change_count grows by one, otherwise nothing is put in the
\* digest; with threshold 0 every changed amount is a CHANGE; 1000 to 950
\* gives 5.00 and 0 to 10 gives 100
C5_ChangeThreshold ==
    [][Classifies /\ HasPrior /\ printed'.amount # PriorAmount =>
          LET new == printed'.amount
              prev == PriorAmount
              reaches == IF prev.n = 0 THEN 100 >= threshold
                         ELSE ChangeReaches(new, prev, threshold)
          IN  /\ printed'.kind = IF reaches THEN "CHANGE" ELSE "minor change ignored"
              /\ threshold = 0 => printed'.kind = "CHANGE"
              /\ printed'.prev = prev
              /\ prev.n = 0 => printed'.pct = 10000
              /\ prev = Num(1000) /\ new = Num(950) => printed'.pct = 500
              /\ (prev.n # 0 /\ (Abs(new.n * prev.d - prev.n * new.d) * 10000) % (prev.n * new.d) = 0)
                    => printed'.pct = Hundredths(new, prev)
              /\ IF reaches
                 THEN Emits /\ change_count' = change_count + 1
                 ELSE events_by_comp' = events_by_comp /\ change_count' = change_count
              /\ init_count' = init_count /\ error_count' = error_count]_vars
    /\ [](Pct(Num(10), Num(0)) = [num |-> 100, den |-> 1] /\ Pct2f(Pct(Num(950), Num(1000))) = 500)

\* with threshold 5 a price went from 1000 to 950 and was reported, at 5.00%
C5_Witness ==
    /\ threshold = 5
    /\ printed.kind = "CHANGE"
    /\ printed.prev = Num(1000) /\ printed.amount = Num(950) /\ printed.pct = 500
    /\ change_count = 1

\* C6: a row whose URL has no prior observation (no key, or an empty
\* sequence) and whose extraction succeeds is an INIT: the line is put in its
\* competitor's group, init_count grows by one and the observation is
\* appended; a row whose URL has a prior observation is never an INIT
C6_InitIffNoPrior ==
    [][Classifies =>
          IF HasPrior
          THEN printed'.kind # "INIT" /\ init_count' = init_count
          ELSE /\ printed'.kind = "INIT"
               /\ Emits
               /\ init_count' = init_count + 1
               /\ history'[cur.key] = <<Entry(printed'.amount)>>]_vars

\* the one INIT of a run is for a URL stored with an empty sequence
C6_Witness ==
    /\ printed.kind = "INIT"
    /\ cur.key \in DOMAIN loaded /\ loaded[cur.key] = <<>>
    /\ Len(history[cur.key]) = 1
    /\ init_count = 1

\* C7: a row whose new amount equals the amount of the last stored
\* observation of its URL puts no line in any group and leaves init_count,
\* change_count and error_count as they were
C7_NoChangeNoEvent ==
    [][Classifies /\ HasPrior /\ printed'.amount = PriorAmount =>
          /\ printed'.kind = "no change"
          /\ events_by_comp' = events_by_comp
          /\ init_count' = init_count
          /\ change_count' = change_count
          /\ error_count' = error_count]_vars

\* an unchanged row after a reported one: the digest holds the one line
C7_Witness ==
    /\ printed.kind = "no change"
    /\ idx = 3
    /\ init_count + change_count + error_count = 1
    /\ TotalItems(events_by_comp) = 1

(***************************************************************************)
(* Properties of history.json across runs                                  *)
(***************************************************************************)
\* the keys of the rows the run processed
Processed == {Locals(rows[i]).key : i \in {n \in 1..Len(rows) : ~Skipped(Locals(rows[n]))}}

\* the step in which save_history puts the new text in place of a whole one
Rewrites == file.st = "full" /\ file'.st = "full" /\ file' # file

\* C8: history.json is append-only across runs: the sequence a URL has after
\* a run starts with the sequence it had before the run, unchanged; when the
\* amount extracted equals the last stored one it is longer by at most one
\* entry; the sequences of URLs the run did not process are unchanged
C8_AppendOnly ==
    [][Rewrites =>
          \A k \in DOMAIN file.data :
             /\ k \in DOMAIN file'.data
             /\ IsPrefix(file.data[k], file'.data[k])
             /\ k \notin Processed => file'.data[k] = file.data[k]
             /\ (/\ file.data[k] # <<>>
                 /\ \A i \in 1..Len(file'.data[k]) :
                       file'.data[k][i].amount = file.data[k][Len(file.data[k])].amount)
                   => Len(file'.data[k]) <= Len(file.data[k]) + 1]_vars

(***************************************************************************)
(* Properties of extract_price                                             *)
(***************************************************************************)
\* what extract_price did for the row: the amount of the line, None when it
\* raised
Extracted == IF printed.kind = "ERROR" THEN None ELSE printed.amount

\* what each strategy yields on the page, taken alone
FromSelector == BySelector(resp.page, cur.attr, cur.regex)
FromJsonLd == ByJsonLd(resp.page.ld, cur.regex)
FromPattern == ByPattern(cur.url, resp.page, cur.name, cur.regex)
FromHeuristic == ByHeuristic(resp.page, cur.regex)

\* C9: extract_price returns what the first of selector, JSON-LD, domain
\* pattern and heuristic that yields a number yields; the selector's value
\* wins over a different JSON-LD price; a later strategy counts only when
\* every earlier one yields nothing; it raises when none yields a number
C9_StrategyOrder ==
    pc = "loop" /\ idx = 2 =>
        /\ FromSelector # None => Extracted = FromSelector
        /\ FromSelector = None /\ FromJsonLd # None => Extracted = FromJsonLd
        /\ FromSelector = None /\ FromJsonLd = None /\ FromPattern # None
              => Extracted = FromPattern
        /\ FromSelector = None /\ FromJsonLd = None /\ FromPattern = None
              => Extracted = FromHeuristic

\* the page had a selected element, a different JSON-LD price, a footnote
\* for the product and dollar amounts: the element's amount was returned
C9_Witness ==
    /\ pc = "loop" /\ idx = 2
    /\ FromSelector # None /\ Extracted = FromSelector
    /\ {FromJsonLd, FromPattern, FromHeuristic} \cap {None, FromSelector} = {}

(***************************************************************************)
(* Properties of _throttle                                                 *)
(***************************************************************************)
\* the largest jitter _throttle can draw, in ticks
MaxJitter == THROTTLE_JITTER_SEC * TicksPerSec

C11_ReplaceIsAtomic ==
    [][/\ pc \in {"start", "loop", "fetch", "parse", "save_tmp"} => file' = file
       /\ pc = "save_replace" =>
             /\ tmp = Full(history)
             /\ pc' = "killed" => file' = file
             /\ pc' = "digest" => file' = Full(history)
             /\ file' \in {file, Full(history), Opened}]_vars

\* killed after history.json.tmp was written and before the replace:
\* history.json holds the old store, which is not the new one
C11_Witness ==
    /\ pc = "killed"
    /\ tmp = Full(history)
    /\ file = Full(StoreAcme)
    /\ history # StoreAcme

(***************************************************************************)
(* Properties of extract_price: the final fallback                         *)
(***************************************************************************)
\* extract_price came down to its final fallback
HeuristicOnly ==
    /\ pc = "loop" /\ idx = 2
    /\ FromSelector = None /\ FromJsonLd = None /\ FromPattern = None

\* the dollar amounts of the page that normalize to a number
Found ==
    {norm_price(Str(resp.page.dollars[i]), cur.regex) : i \in 1..Len(resp.page.dollars)}
        \ {None}
AtFloor == {a \in Found : Geq(a, Num(MIN_PRICE_FLOOR))}

IsMaxOf(r, S) == r \in S /\ \A a \in S : Geq(r, a)

\* C12: the final fallback returns the largest of the dollar amounts at or
\* above MIN_PRICE_FLOOR when there is one, otherwise the largest of them
\* all; for 5 and 999 it returns 999; extract_price raises only when the
\* page has no dollar amount
C12_HeuristicMax ==
    HeuristicOnly =>
        /\ Found = {} <=> printed.kind = "ERROR"
        /\ Found # {} => IsMaxOf(Extracted, IF AtFloor # {} THEN AtFloor ELSE Found)
        /\ Found = {Num(5), Num(999)} => Extracted = Num(999)

\* of 12, 999 and 1,050.00 the last was returned
C12_Witness ==
    /\ HeuristicOnly
    /\ Found = {Num(12), Num(999), Num(1050)}
    /\ Extracted = Num(1050)

(***************************************************************************)
(* Properties of norm_price                                                *)
(***************************************************************************)
\* the digits of s, in order
RECURSIVE OnlyDigits(_)
OnlyDigits(s) ==
    IF s = "" THEN ""
    ELSE (IF Char(s, 1) \in {"0", "1", "2", "3", "4", "5", "6", "7", "8", "9"}
          THEN Char(s, 1) ELSE "") \o OnlyDigits(SubSeq(s, 2, Len(s)))

Points(s) == Cardinality({i \in 1..Len(s) : Char(s, i) = "."})

\* what follows the last decimal point of s
AfterLastPoint(s) ==
    LET p == CHOOSE i \in 1..Len(s) : Char(s, i) = "." /\ \A j \in (i + 1)..Len(s) : Char(s, j) # "."
    IN  SubSeq(s, p + 1, Len(s))

\* the number read from the digits of s in order, with the decimal point
\* where the last point of s is; None when s has no digit
LastPointNumber(s) ==
    IF OnlyDigits(s) = "" THEN None
    ELSE Canon([n |-> NatOf(OnlyDigits(s)),
                d |-> IF Points(s) = 0 THEN 1 ELSE Pow10(Len(OnlyDigits(AfterLastPoint(s))))])

\* the text norm_price was given, and the string it handed to float()
NormText == resp.page.node.text
NormCleaned == Cleaned(NormText, DEFAULT_REGEX)

\* C13: with the default pattern, of k > 1 decimal points exactly the last
\* survives and the digits keep their order; with one point the digits and
\* the point stay as they are; the amount is the number so written; a text
\* that leaves no character, and None, give None, and nothing is raised but
\* extract_price's own ValueError
C13_LastPointSurvives ==
    pc = "loop" /\ idx = 2 =>
        IF cur.attr = "inner_text"
        THEN /\ OnlyDigits(NormCleaned) = OnlyDigits(NormText)
             /\ Points(NormText) > 1 =>
                   /\ Points(NormCleaned) = 1
                   /\ AfterLastPoint(NormCleaned) = OnlyDigits(AfterLastPoint(NormText))
             /\ Points(NormText) = 1 =>
                   /\ Points(NormCleaned) = 1
                   /\ AfterLastPoint(NormCleaned) = OnlyDigits(AfterLastPoint(NormText))
                   /\ Len(NormCleaned) = Len(OnlyDigits(NormText)) + 1
             /\ Points(NormText) = 0 => NormCleaned = OnlyDigits(NormText)
             /\ Extracted = LastPointNumber(NormText)
             /\ NormCleaned = "" => Extracted = None
        ELSE /\ NodeGet(resp.page.node, cur.attr) = None
             /\ Extracted = None
             /\ printed.reason = [err |-> "ValueError", tries |-> 0, url |-> ""]

\* ".1.2" gave 1.2
C13_Witness ==
    /\ pc = "loop" /\ idx = 2
    /\ cur.attr = "inner_text"
    /\ Points(NormText) = 2
    /\ NormText = ".1.2"
    /\ NormCleaned = "1.2"
    /\ Extracted = [n |-> 12, d |-> 10]

(***************************************************************************)
(* Properties of the history key and of the proxy                          *)
(***************************************************************************)
\* the query of u without its utm_ parameters
NonUtm(u) == SelectSeq(u.query, LAMBDA q : ~StartsWith(Lower(q.k), "utm_"))

\* u and v differ in their utm_ parameters at most
OnlyUtmApart(u, v) == u.netloc = v.netloc /\ u.path = v.path /\ NonUtm(u) = NonUtm(v)

\* the key main() uses for the row
KeyOf(r) == UrlText(normalize_url(r.product_url))

\* C14: the key of a row is its URL without the utm_ parameters (whatever
\* their case): rows whose URLs differ in utm_ parameters only share a key,
\* and the later one is compared with the earlier observation instead of
\* being an INIT; rows whose URLs differ in any other way have distinct keys
\* and each is an INIT; normalize_url is idempotent
C14_KeyIsUrlWithoutUtm ==
    /\ [](\A i, j \in 1..Len(rows) :
             /\ KeyOf(rows[i]) = UrlText([rows[i].product_url EXCEPT
                                             !.query = NonUtm(rows[i].product_url)])
             /\ KeyOf(rows[i]) = KeyOf(rows[j])
                   <=> OnlyUtmApart(rows[i].product_url, rows[j].product_url)
             /\ normalize_url(normalize_url(rows[i].product_url))
                   = normalize_url(rows[i].product_url))
    /\ [][Classifies =>
             (printed'.kind = "INIT" <=>
                 \A i \in 1..(idx - 1) :
                    ~OnlyUtmApart(rows[i].product_url, rows[idx].product_url))]_vars

\* the domain of the URL is the allow-listed one
OnAllowedDomain(u) == u.netloc \in {"hydrow.com", "www.hydrow.com"}

\* C15: the GET goes to the proxy, with the API key and the row's URL, only
\* when a key is configured and the URL's domain is the allow-listed one;
\* with no key, or for a URL on another domain, it goes to the URL itself
C15_ProxyOnlyForAllowedDomain ==
    gets >= 1 =>
        /\ target.proxied <=> (apikey # "" /\ OnAllowedDomain(cur.url))
        /\ target.proxied => target.key = apikey /\ target.url = cur.url
        /\ ~target.proxied => target.key = "" /\ target.url = cur.url

(***************************************************************************)
(* Properties of the digest                                                *)
(***************************************************************************)
Tally == init_count + change_count + error_count

RECURSIVE SumItems(_)
SumItems(groups) ==
    IF groups = <<>> THEN 0 ELSE Len(groups[1].items) + SumItems(Tail(groups))

\* C16: the digest lists the competitors in sorted order, the group of each
\* holding the lines emitted for it in the order the rows were processed;
\* init_count + change_count + error_count is the number of lines in all
\* groups; a row adds at most one line
C16_DigestGroupsAndCounts ==
    /\ [][pc # "start" =>
             \/ events_by_comp' = events_by_comp /\ Tally' = Tally
             \/ /\ RowEnds /\ Emits
                /\ Tally' = Tally + 1
                /\ init_count' >= init_count /\ change_count' >= change_count
                /\ error_count' >= error_count]_vars
    /\ [](Tally = TotalItems(events_by_comp))
    /\ [](digest.sent =>
             /\ \A i, j \in 1..Len(digest.groups) :
                   i < j => StrLess(digest.groups[i].comp, digest.groups[j].comp)
             /\ {digest.groups[i].comp : i \in 1..Len(digest.groups)} = DOMAIN events_by_comp
             /\ \A i \in 1..Len(digest.groups) :
                   digest.groups[i].items = events_by_comp[digest.groups[i].comp]
             /\ digest.changes = change_count /\ digest.inits = init_count
             /\ digest.errors = error_count
             /\ digest.changes + digest.inits + digest.errors = SumItems(digest.groups))

\* Hydrow's row came first, Acme's second, one of them failed: Acme's group
\* is first
C16_Witness ==
    /\ digest.sent
    /\ Len(digest.groups) = 2
    /\ rows[1] = RowHydrow
    /\ digest.groups[1].comp = "Acme" /\ digest.groups[2].comp = "Hydrow"
    /\ digest.errors = 1 /\ digest.inits + digest.changes = 1

(***************************************************************************)
(* Properties of the skip                                                  *)
(***************************************************************************)
\* the row's URL or selector is blank
BlankRow(r) == r.product_url = BlankUrl \/ Strip(r.price_selector_css) = ""

\* C17: a row with a blank URL or a blank selector is skipped: the loop
\* moves to the next row with no GET, _LAST_FETCH and the clock as they
\* were, no line in any group, no count changed and history as it was; the
\* rows after it are still taken
C17_SkipHasNoEffect ==
    /\ [][pc = "loop" /\ idx <= Len(rows) /\ BlankRow(rows[idx]) =>
             /\ pc' = "loop"
             /\ idx' = idx + 1
             /\ printed'.kind = "skip"
             /\ UNCHANGED <<gets, target, resp, attempt, LAST_FETCH, now, events_by_comp,
                            init_count, change_count, error_count, history, file, tmp>>]_vars
    /\ [](pc = "loop" /\ idx <= Len(rows) => ENABLED (SkipRow \/ CallExtract))

\* the first row was skipped and the second was fetched and recorded
C17_Witness ==
    /\ idx = 3
    /\ BlankRow(rows[1])
    /\ printed.kind \in Outcomes
    /\ gets = 1
    /\ Cardinality(DOMAIN LAST_FETCH) = 1
    /\ Len(history[cur.key]) >= 1

(***************************************************************************)
(* Properties of _LAST_FETCH                                               *)
(***************************************************************************)
\* C18: every attempt, whatever its outcome (a 2xx, a 429, a 5xx, another
\* status, or requests.get raising), sets _LAST_FETCH[d] for its domain d to
\* the time _throttle released it, which is not before the entry it
\* replaces; the entries of the other domains stay as they are, and nothing
\* but an attempt changes _LAST_FETCH during the loop
C18_LastFetchEveryAttempt ==
    [][/\ Gets =>
             LET d == cur.url.netloc
                 old == IF d \in DOMAIN LAST_FETCH THEN LAST_FETCH[d] ELSE 0
                 wait == MIN_DOMAIN_GAP - (now - old) + jitter'
             IN  /\ DOMAIN LAST_FETCH' = DOMAIN LAST_FETCH \cup {d}
                 /\ \A e \in DOMAIN LAST_FETCH : e # d => LAST_FETCH'[e] = LAST_FETCH[e]
                 /\ LAST_FETCH'[d] = IF wait > 0 THEN now + wait ELSE now
                 /\ LAST_FETCH'[d] >= old
                 /\ now <= LAST_FETCH'[d] /\ LAST_FETCH'[d] <= now'
       /\ pc # "start" /\ ~Gets => LAST_FETCH' = LAST_FETCH]_vars

\* requests.get raised for the second domain of the run: both have an entry,
\* the second's is the time the request was sent
C18_Witness ==
    /\ pc = "loop"
    /\ resp.status = 0
    /\ printed.kind = "ERROR"
    /\ printed.reason = [err |-> "RequestException"]
    /\ DOMAIN LAST_FETCH = {"hydrow.com", "a.com"}
    /\ dom = "a.com"
    /\ LAST_FETCH[dom] = now - 1

(***************************************************************************)
(* Properties of the back-off                                              *)
(***************************************************************************)
RECURSIVE Pow2(_)
Pow2(k) == IF k = 0 THEN 1 ELSE 2 * Pow2(k - 1)

\* min(2 * 2^(k-1), 30) seconds, in ticks
BaseDelay(k) ==
    IF 2 * Pow2(k - 1) < 30 THEN 2 * Pow2(k - 1) * TicksPerSec ELSE 30 * TicksPerSec

\* C19: within one call of http_get_with_backoff the delay is 2 s before
\* the first retry and doubles after every 429 or 5xx response without
\* exceeding 30 s; the sleep after the k-th such response is at least
\* min(2 * 2^(k-1), 30) s and exceeds it by at most 1.5 s after a 429 and
\* 1.0 s after a 5xx
C19_BackoffDoubles ==
    /\ [](pc = "fetch" => /\ attempt \in 1..3
                          /\ delay = BaseDelay(attempt)
                          /\ delay <= 30 * TicksPerSec)
    /\ [][Gets /\ (resp'.status = 429 \/ resp'.status \in 500..599) =>
             LET k == attempt
                 over == slept' - BaseDelay(k)
             IN  /\ over >= 0
                 /\ resp'.status = 429 => 2 * over <= 3 * TicksPerSec
                 /\ resp'.status # 429 => over <= TicksPerSec
                 /\ now' - LAST_FETCH'[cur.url.netloc] >= slept'
                 /\ delay' = BaseDelay(k + 1)
                 /\ delay' <= 30 * TicksPerSec]_vars
    /\ [][Gets /\ ~(resp'.status = 429 \/ resp'.status \in 500..599) =>
             UNCHANGED <<delay, slept>>]_vars

\* the third 429 in a row, with the largest jitter: 8 s + 1.5 s
C19_Witness ==
    /\ resp.status = 429
    /\ gets = 3
    /\ slept = 8 * TicksPerSec + 3
    /\ delay = 16 * TicksPerSec

(***************************************************************************)
(* Properties of a run whose history.json could not be loaded              *)
(***************************************************************************)
\* main() is between load_history and save_history
InLoop == pc \in {"loop", "fetch", "parse"}

\* save_history has returned
Saved == pc \in {"digest", "done"}

\* the entries history.json held for any URL before the run
Persisted == UNION {{f.data[k][i] : i \in 1..Len(f.data[k])} : <<f, k>> \in
                       {<<g, u>> \in HistoryFiles \X {"https://a.com/p", "https://hydrow.com/wave"} :
                            u \in DOMAIN g.data}}

\* load_history yields {} without raising when history.json is missing or
\* not valid JSON, and may do so for a whole file (open() raising OSError);
\* main() goes on to the loop
LoadsEmpty ==
    /\ [](InLoop /\ file.st # "full" => loaded = EmptyMap)
    /\ [](InLoop => loaded = EmptyMap \/ loaded = file.data)
    /\ [][pc = "start" => pc' = "loop" /\ history' = loaded' /\ file' = file]_vars

\* save_history leaves a whole text of this run's observations only
SavesThisRunOnly ==
    [](Saved /\ loaded = EmptyMap =>
          /\ file = Full(history)
          /\ DOMAIN file.data \subseteq Processed
          /\ \A k \in DOMAIN file.data :
                \A i \in 1..Len(file.data[k]) :
                   /\ file.data[k][i] \notin Persisted
                   /\ file.data[k][i].ts >= StartTime \div TicksPerSec)

\* C20 as stated: after such a load every rule whose price is extracted is
\* classified Init
C20_AsClaimed ==
    /\ LoadsEmpty
    /\ [][Classifies /\ loaded = EmptyMap => printed'.kind = "INIT"]_vars
    /\ SavesThisRunOnly

\* C20, amended: when history.json is missing, unreadable or not valid
\* JSON, load_history yields {} without raising; the run classifies as Init
\* exactly the extracted rules whose normalized URL no earlier row of the
\* same run was observed under (a later row with the same URL is compared
\* with the earlier row's amount); save_history leaves in history.json only
\* this run's observations
C20_EmptyLoad ==
    /\ LoadsEmpty
    /\ [][Classifies /\ loaded = EmptyMap =>
             (printed'.kind = "INIT" <=> cur.key \notin DOMAIN history)]_vars
    /\ SavesThisRunOnly

\* history.json was cut short; two rows with the same normalized URL were
\* extracted, the second was not Init, and the file holds their two entries
C20_Witness ==
    /\ pc = "done"
    /\ loaded = EmptyMap
    /\ Len(rows) = 2
    /\ Processed = {"https://a.com/p"}
    /\ file.st = "full"
    /\ DOMAIN file.data = {"https://a.com/p"}
    /\ Len(file.data["https://a.com/p"]) = 2
    /\ printed.kind = "no change"
    /\ init_count = 1

(***************************************************************************)
(* news.py: load_seen, save_seen, normalize_link                           *)
(***************************************************************************)
MaxEntries == 2                   \* entries the feeds of one run return
MaxRuns == 2                      \* runs of news.py

\* set(json.load(f)), set() when the file does not exist or when open() or
\* json.load raises
load_seen(f, oserror) ==
    IF f.st = "missing" THEN {}
    ELSE IF oserror \/ f.st # "full" THEN {}
    ELSE {f.data[i] : i \in 1..Len(f.data)}

\* urlunsplit of the link without its utm_ fields, after parse_qsl and urlencode
normalize_link(link) == UrlText([link EXCEPT !.query = SelectSeq(link.query, KeptParam)])

\* getattr(e, "link", "") or getattr(e, "id", "")
LinkOf(e) == IF e.link # BlankUrl THEN e.link ELSE e.id

\* a feed entry: the competitor of the row whose feed carries it, its link
\* and id, and whether its date is within NEWS_LOOKBACK_DAYS (an entry with
\* no date is)
FeedEntry(comp, link, id, recent) ==
    [comp |-> comp, link |-> link, id |-> id, recent |-> recent]

EntryN1 == FeedEntry("Acme", Url("a.com", "/n1", <<>>), BlankUrl, TRUE)
EntryN1Utm ==
    FeedEntry("Hydrow", Url("a.com", "/n1", <<KV("utm_source", "rss")>>), BlankUrl, TRUE)
EntryN2 == FeedEntry("Hydrow", BlankUrl, Url("hydrow.com", "/n2", <<>>), TRUE)
EntryOld == FeedEntry("Acme", Url("a.com", "/n3", <<>>), BlankUrl, FALSE)
EntryNoLink == FeedEntry("Acme", BlankUrl, BlankUrl, TRUE)

FeedEntries == {EntryN1, EntryN1Utm, EntryN2, EntryOld, EntryNoLink}

\* what the feeds of a run can return
Feeds(n) == UNION {[1..k -> FeedEntries] : k \in 0..n}

(***************************************************************************)
(* news.py: main()                                                         *)
(***************************************************************************)
NewsFrame == UNCHANGED watchvars

\* where main() goes after an entry: the next one, or the digests
AfterEntry(p, f) == IF p > Len(f) THEN "email" ELSE "scan"

\* competitors_news.csv and news_history.json are read, the feeds fetched
StartNews(entries, oserror) ==
    /\ npc \in {"start", "done", "failed", "killed"}
    /\ runs < MaxRuns
    /\ runs' = runs + 1
    /\ seen' = load_seen(news_file, oserror)
    /\ seen_loaded' = load_seen(news_file, oserror)
    /\ new_links_global' = <<>>
    /\ items_by_comp' = <<>>
    /\ mailed' = 1
    /\ feed' = entries
    /\ pos' = 1
    /\ npc' = AfterEntry(1, entries)
    /\ UNCHANGED <<news_file, sent>>
    /\ NewsFrame

\* the link of the entry the loop is at
Link == normalize_link(LinkOf(feed[pos]))

\* `if not link or link in seen: continue`
SkipEntry ==
    /\ npc = "scan"
    /\ Link = "" \/ Link \in seen
    /\ pos' = pos + 1
    /\ npc' = AfterEntry(pos + 1, feed)
    /\ UNCHANGED <<seen, seen_loaded, news_file, feed, items_by_comp, new_links_global,
                   mailed, sent, runs>>
    /\ NewsFrame

\* `if not in_window(dt): continue`
DropEntry ==
    /\ npc = "scan"
    /\ ~(Link = "" \/ Link \in seen)
    /\ ~feed[pos].recent
    /\ pos' = pos + 1
    /\ npc' = AfterEntry(pos + 1, feed)
    /\ UNCHANGED <<seen, seen_loaded, news_file, feed, items_by_comp, new_links_global,
                   mailed, sent, runs>>
    /\ NewsFrame

\* items_by_comp.setdefault(comp, []).append(item)
WithItem(ibc, comp, item) ==
    IF \E i \in 1..Len(ibc) : ibc[i].comp = comp
    THEN [i \in 1..Len(ibc) |->
             IF ibc[i].comp = comp THEN [ibc[i] EXCEPT !.items = Append(@, item)]
             ELSE ibc[i]]
    ELSE Append(ibc, [comp |-> comp, items |-> <<item>>])

\* the entry is put in its competitor's digest and its link in seen
AcceptEntry ==
    /\ npc = "scan"
    /\ ~(Link = "" \/ Link \in seen)
    /\ feed[pos].recent
    /\ items_by_comp' = WithItem(items_by_comp, feed[pos].comp, [link |-> Link])
    /\ seen' = seen \cup {Link}
    /\ new_links_global' = Append(new_links_global, Link)
    /\ pos' = pos + 1
    /\ npc' = AfterEntry(pos + 1, feed)
    /\ UNCHANGED <<seen_loaded, news_file, feed, mailed, sent, runs>>
    /\ NewsFrame

\* send_email(subject, body) for the next competitor returns
SendEmail ==
    /\ npc = "email"
    /\ mailed <= Len(items_by_comp)
    /\ sent' = Append(sent, [run |-> runs, comp |-> items_by_comp[mailed].comp,
                             items |-> items_by_comp[mailed].items])
    /\ mailed' = mailed + 1
    /\ UNCHANGED <<npc, seen, seen_loaded, news_file, feed, pos, items_by_comp,
                   new_links_global, runs>>
    /\ NewsFrame

\* send_email raises (smtplib cannot connect or log in): main() ends there
SendEmailRaises ==
    /\ npc = "email"
    /\ mailed <= Len(items_by_comp)
    /\ npc' = "failed"
    /\ UNCHANGED <<seen, seen_loaded, news_file, feed, pos, items_by_comp,
                   new_links_global, mailed, sent, runs>>
    /\ NewsFrame

\* save_seen: open(HISTORY_FILE, "w")
SaveSeenOpen ==
    /\ npc = "email"
    /\ mailed > Len(items_by_comp)
    /\ news_file' = OpenedSeenFile
    /\ npc' = "save_dump"
    /\ UNCHANGED <<seen, seen_loaded, feed, pos, items_by_comp, new_links_global,
                   mailed, sent, runs>>
    /\ NewsFrame

\* save_seen: json.dump(sorted(seen), f) and the close
SaveSeenDump ==
    /\ npc = "save_dump"
    /\ news_file' = SeenFile(Sorted(seen))
    /\ npc' = "done"
    /\ UNCHANGED <<seen, seen_loaded, feed, pos, items_by_comp, new_links_global,
                   mailed, sent, runs>>
    /\ NewsFrame

\* the process is killed inside save_seen: the file keeps what had reached
\* it, nothing or part of the text
InterruptSaveSeen ==
    /\ npc = "save_dump"
    /\ news_file' \in {OpenedSeenFile, [st |-> "prefix", data |-> Sorted(seen)]}
    /\ npc' = "killed"
    /\ UNCHANGED <<seen, seen_loaded, feed, pos, items_by_comp, new_links_global,
                   mailed, sent, runs>>
    /\ NewsFrame

\* SpecNews: MaxRuns runs of news.py in a row, the first with no
\* news_history.json, each over any feed of at most MaxEntries entries;
\* open() and send_email may raise and the process may be killed while saving
NextNews ==
    \/ \E entries \in Feeds(MaxEntries), oserror \in BOOLEAN : StartNews(entries, oserror)
    \/ SkipEntry
    \/ DropEntry
    \/ AcceptEntry
    \/ SendEmail
    \/ SendEmailRaises
    \/ SaveSeenOpen
    \/ SaveSeenDump
    \/ InterruptSaveSeen

InitNews == InitWith({0}, {""}, {Missing})

SpecNews == InitNews /\ [][NextNews]_vars

(***************************************************************************)
(* Properties of the seen set of news.py                                   *)
(***************************************************************************)
\* the links a whole news_history.json holds
PersistedLinks == IF news_file.st = "full"
                  THEN {news_file.data[i] : i \in 1..Len(news_file.data)}
                  ELSE {}

\* the step in which an entry is put in a digest
Accepts == npc = "scan" /\ Len(new_links_global') = Len(new_links_global) + 1

\* the places of the digests sent, over all runs, where the link l stands
Reports(l) == {<<d, i>> \in (1..Len(sent)) \X (1..MaxEntries) :
                  i <= Len(sent[d].items) /\ sent[d].items[i].link = l}

\* the links of the digests sent by the running run
ReportedThisRun == UNION {{sent[d].items[i].link : i \in 1..Len(sent[d].items)} :
                            d \in {e \in 1..Len(sent) : sent[e].run = runs}}

\* a link accepted was not accepted earlier in the same run
NotTwiceInARun ==
    [][Accepts => Link \notin seen /\ \A i \in 1..Len(new_links_global) :
                                         new_links_global[i] # Link]_vars

\* a link in news_history.json when a run starts is not put in a digest by it
PersistedNotAccepted == [][Accepts => Link \notin PersistedLinks]_vars

\* no link stands twice in the digests sent
ReportedOnce == [](\A d \in 1..Len(sent) : \A i \in 1..Len(sent[d].items) :
                      Cardinality(Reports(sent[d].items[i].link)) = 1)

\* seen only grows during a run, and a run starts from what was saved
SeenGrows ==
    /\ [][runs' = runs => seen \subseteq seen']_vars
    /\ [][runs' # runs => PersistedLinks \subseteq seen']_vars

\* save_seen writes the loaded set plus the links this run reported
SavedIsLoadedPlusReported ==
    [][npc = "save_dump" /\ npc' = "done" =>
          /\ {news_file'.data[i] : i \in 1..Len(news_file'.data)}
                = seen_loaded \cup ReportedThisRun
          /\ ReportedThisRun = {new_links_global[i] : i \in 1..Len(new_links_global)}]_vars

\* C21: a link that is in the persisted seen set when a run of news.py
\* starts, or that was accepted earlier in the same run, is never put in a
\* digest again, so that each normalized link is reported at most once over
\* any sequence of runs; the seen set only grows; the set saved at the end
\* of a run is the loaded set plus exactly the links reported in that run
C21_EachLinkReportedOnce ==
    /\ NotTwiceInARun
    /\ PersistedNotAccepted
    /\ ReportedOnce
    /\ SeenGrows
    /\ SavedIsLoadedPlusReported

====
